---- MODULE Spec2Model ----
(***************************************************************************)
(* Model of src/app.py: the co-occurrence aggregation (get_best_friends),  *)
(* the query pipeline (query_friends, process_query_with_claude,           *)
(* fallback_query_analysis), the request handlers' connection handling,    *)
(* and the loader of src/load_data_to_weaviate.py, which rewrites the      *)
(* store's collections while requests are in flight.                       *)
(*                                                                         *)
(* Strings are sequences of one-character strings, so that str.lower(),    *)
(* str.strip(), the `in` substring test and the code-point order used by   *)
(* sorted() are computed, not assumed.                                     *)
(***************************************************************************)
EXTENDS Integers, Sequences, FiniteSets, TLC

VARIABLES store, out, req, loader

vars == <<store, out, req, loader>>

---------------------------------------------------------------------------
(* Bounds of the model *)

\* most events in a batch of the aggregation specification
MaxEvents == 2

\* most attendee slots (sum of the people lists' lengths) in such a batch
MaxAttend == 5

---------------------------------------------------------------------------
(* Python strings *)

\* the characters the model uses, in code-point order; a character that a
\* string literal cannot hold is named by its code point
Alphabet ==
    <<"\t", "\n", "", "\f", "\r", "", "", "", "", " ", "?",
      "A", "B", "C", "D", "E", "F", "G", "H", "I", "J", "K", "L", "M",
      "N", "O", "P", "Q", "R", "S", "T", "U", "V", "W", "X", "Y", "Z",
      "a", "b", "c", "d", "e", "f", "g", "h", "i", "j", "k", "l", "m",
      "n", "o", "p", "q", "r", "s", "t", "u", "v", "w", "x", "y", "z",
      "", " ", " ",
      "U+2000", "U+2001", "U+2002", "U+2003", "U+2004", "U+2005",
      "U+2006", "U+2007", "U+2008", "U+2009", "U+200A",
      "U+2028", "U+2029", "U+202F", "U+205F", "U+3000">>

OrdTable ==
    [c \in {Alphabet[i] : i \in 1..Len(Alphabet)} |->
        CHOOSE i \in 1..Len(Alphabet) : Alphabet[i] = c]

\* the place of a character in the code-point order
Ord(c) == OrdTable[c]

IsUpper(c) == Ord(c) >= Ord("A") /\ Ord(c) <= Ord("Z")

\* the characters str.strip() removes: tab, newline, vertical tab, form feed,
\* carriage return, U+001C to U+001F, space, U+0085, U+00A0, U+1680, U+2000 to
\* U+200A, U+2028, U+2029, U+202F, U+205F, U+3000
Whitespace ==
    {"\t", "\n", "", "\f", "\r", "", "", "", "", " ",
     "", " ", " ",
     "U+2000", "U+2001", "U+2002", "U+2003", "U+2004", "U+2005",
     "U+2006", "U+2007", "U+2008", "U+2009", "U+200A",
     "U+2028", "U+2029", "U+202F", "U+205F", "U+3000"}

IsSpace(c) == c \in Whitespace

\* str.lower(), one character
LowerChar(c) == IF IsUpper(c) THEN Alphabet[Ord(c) - Ord("A") + Ord("a")] ELSE c

\* str.lower()
Lower(s) == [i \in 1..Len(s) |-> LowerChar(s[i])]

RECURSIVE LStrip(_)
LStrip(s) == IF s # <<>> /\ IsSpace(Head(s)) THEN LStrip(Tail(s)) ELSE s

RECURSIVE RStrip(_)
RStrip(s) ==
    IF s # <<>> /\ IsSpace(s[Len(s)]) THEN RStrip(SubSeq(s, 1, Len(s) - 1)) ELSE s

\* str.strip()
Strip(s) == RStrip(LStrip(s))

\* `sub in s` on strings
Contains(sub, s) ==
    \E k \in 0..(Len(s) - Len(sub)) : SubSeq(s, k + 1, k + Len(sub)) = sub

\* s < t on strings: lexicographic by code point, a proper prefix is smaller
RECURSIVE StrLess(_, _)
StrLess(s, t) ==
    IF t = <<>> THEN FALSE
    ELSE IF s = <<>> THEN TRUE
    ELSE IF Head(s) = Head(t) THEN StrLess(Tail(s), Tail(t))
    ELSE Ord(Head(s)) < Ord(Head(t))

---------------------------------------------------------------------------
(* Pair counting: the loop of get_best_friends, repeated verbatim in        *)
(* create_data_analysis and fallback_query_analysis                         *)

\* tuple(sorted([a, b])): sorted is stable, so b moves first only if b < a
PairUnsorted(a, b) == <<a, b>>

SortedPair(a, b) == IF StrLess(b, a) THEN <<b, a>> ELSE <<a, b>>

\* a dict is the sequence of its items <<key, value>> in insertion order
DictHas(d, k) == \E n \in 1..Len(d) : d[n][1] = k

DictGetAlwaysDefault(d, k, default) == default

\* d.get(k, default)
DictGet(d, k, default) ==
    IF DictHas(d, k) THEN d[CHOOSE n \in 1..Len(d) : d[n][1] = k][2] ELSE default

\* d[k] = v: an existing key keeps its place, a new key goes last
DictSet(d, k, v) ==
    IF DictHas(d, k)
    THEN [n \in 1..Len(d) |-> IF d[n][1] = k THEN <<k, v>> ELSE d[n]]
    ELSE Append(d, <<k, v>>)

\* the nested loops with the inner one starting at i instead of i + 1
RECURSIVE CountEventPairsWithSelf(_, _, _, _)
CountEventPairsWithSelf(pair_counts, people, i, j) ==
    IF i > Len(people) THEN pair_counts
    ELSE IF j > Len(people)
         THEN LET self == SortedPair(people[i], people[i])
              IN  CountEventPairsWithSelf(
                      DictSet(pair_counts, self, DictGet(pair_counts, self, 0) + 1),
                      people, i + 1, i + 2)
    ELSE LET pair == SortedPair(people[i], people[j])
         IN  CountEventPairsWithSelf(
                 DictSet(pair_counts, pair, DictGet(pair_counts, pair, 0) + 1),
                 people, i, j + 1)

\* the two nested loops over positions i < j of one event's people list
RECURSIVE CountEventPairs(_, _, _, _)
CountEventPairs(pair_counts, people, i, j) ==
    IF i > Len(people) THEN pair_counts
    ELSE IF j > Len(people) THEN CountEventPairs(pair_counts, people, i + 1, i + 2)
    ELSE LET pair == SortedPair(people[i], people[j])
         IN  CountEventPairs(
                 DictSet(pair_counts, pair, DictGet(pair_counts, pair, 0) + 1),
                 people, i, j + 1)

\* the loop left after its first event
CountPairsFirstOnly(pair_counts, events) ==
    IF events = <<>> THEN pair_counts
    ELSE CountEventPairs(pair_counts, Head(events).people, 1, 2)

\* the loop over the events
RECURSIVE CountPairs(_, _)
CountPairs(pair_counts, events) ==
    IF events = <<>> THEN pair_counts
    ELSE CountPairs(CountEventPairs(pair_counts, Head(events).people, 1, 2),
                    Tail(events))

PairCounts(events) == CountPairs(<<>>, events)

\* sorted(items, key=lambda x: x[1], reverse=True): stable, so items of equal
\* count keep their insertion order
RECURSIVE InsertDescBeforeEqual(_, _)
InsertDescBeforeEqual(sorted, x) ==
    IF sorted = <<>> THEN <<x>>
    ELSE IF Head(sorted)[2] > x[2]
         THEN <<Head(sorted)>> \o InsertDescBeforeEqual(Tail(sorted), x)
    ELSE <<x>> \o sorted

RECURSIVE InsertDesc(_, _)
InsertDesc(sorted, x) ==
    IF sorted = <<>> THEN <<x>>
    ELSE IF Head(sorted)[2] >= x[2] THEN <<Head(sorted)>> \o InsertDesc(Tail(sorted), x)
    ELSE <<x>> \o sorted

RECURSIVE SortDescFrom(_, _)
SortDescFrom(sorted, items) ==
    IF items = <<>> THEN sorted
    ELSE SortDescFrom(InsertDesc(sorted, Head(items)), Tail(items))

SortedByCountUnsorted(items) == items

SortedByCountDesc(items) == SortDescFrom(<<>>, items)

\* the sort and the formatting loop of get_best_friends
FriendsListFrom(pair_counts) ==
    LET best_friends == SortedByCountDesc(pair_counts)
    IN  [n \in 1..Len(best_friends) |->
            [person1 |-> best_friends[n][1][1],
             person2 |-> best_friends[n][1][2],
             events_together |-> best_friends[n][2]]]

\* the response list of /api/best-friends
FriendsList(events) == FriendsListFrom(PairCounts(events))

\* max(d, key=d.get): the first key, in insertion order, of the greatest value
RECURSIVE MaxFrom(_, _, _)
MaxFrom(d, best, n) ==
    IF n > Len(d) THEN d[best][1]
    ELSE IF d[n][2] > d[best][2] THEN MaxFrom(d, n, n + 1)
    ELSE MaxFrom(d, best, n + 1)

RECURSIVE MaxLastFrom(_, _, _)
MaxLastFrom(d, best, n) ==
    IF n > Len(d) THEN d[best][1]
    ELSE IF d[n][2] >= d[best][2] THEN MaxLastFrom(d, n, n + 1)
    ELSE MaxLastFrom(d, best, n + 1)

MaxKeyLast(d) == MaxLastFrom(d, 1, 2)

MaxKey(d) == MaxFrom(d, 1, 2)

---------------------------------------------------------------------------
(* The query pipeline *)

BestFriendsWords == <<"b", "e", "s", "t", " ", "f", "r", "i", "e", "n", "d", "s">>

TogetherWord == <<"t", "o", "g", "e", "t", "h", "e", "r">>

\* an answer text: the template of the f-string and the values put into it
BestPairAnswer(pair, count) ==
    [template |-> "{0} and {1} are the best friends with {2} events together.",
     person1 |-> pair[1], person2 |-> pair[2], count |-> count, text |-> ""]

CannotProcessAnswer ==
    [template |-> "I'm having trouble processing your question right now. Please try asking about specific people, activities, or events.",
     person1 |-> <<>>, person2 |-> <<>>, count |-> 0, text |-> ""]

VerbatimAnswer(text) ==
    [template |-> "{text}", person1 |-> <<>>, person2 |-> <<>>, count |-> 0,
     text |-> text]

NoAnswer ==
    [template |-> "", person1 |-> <<>>, person2 |-> <<>>, count |-> 0, text |-> ""]

\* what a call returns: a value {answer, type, data}, or an exception
Returned(answer, type) == [raised |-> FALSE, error |-> "", answer |-> answer, type |-> type]

Raised(error) == [raised |-> TRUE, error |-> error, answer |-> NoAnswer, type |-> ""]

\* counts[k] = counts.get(k, 0) + 1 for every key of a list, in order
RECURSIVE CountKeys(_, _)
CountKeys(counts, keys) ==
    IF keys = <<>> THEN counts
    ELSE CountKeys(DictSet(counts, Head(keys), DictGet(counts, Head(keys), 0) + 1),
                   Tail(keys))

RECURSIVE PersonCountsFrom(_, _)
PersonCountsFrom(person_counts, events) ==
    IF events = <<>> THEN person_counts
    ELSE PersonCountsFrom(CountKeys(person_counts, Head(events).people), Tail(events))

PersonCounts(events) == PersonCountsFrom(<<>>, events)

ActivityCounts(events) ==
    CountKeys(<<>>, [n \in 1..Len(events) |-> events[n].activity_name])

\* sorted(list of strings)
RECURSIVE InsertAsc(_, _)
InsertAsc(sorted, x) ==
    IF sorted = <<>> THEN <<x>>
    ELSE IF StrLess(x, Head(sorted)) THEN <<x>> \o sorted
    ELSE <<Head(sorted)>> \o InsertAsc(Tail(sorted), x)

RECURSIVE SortAscFrom(_, _)
SortAscFrom(sorted, items) ==
    IF items = <<>> THEN sorted
    ELSE SortAscFrom(InsertAsc(sorted, Head(items)), Tail(items))

SortedStrings(items) == SortAscFrom(<<>>, items)

\* seq[-3:]
LastThree(seq) == SubSeq(seq, IF Len(seq) > 3 THEN Len(seq) - 2 ELSE 1, Len(seq))

\* [e['name'] for e in events if e.get('date_time')]; a missing date_time is <<>>
RECURSIVE NamesOfDated(_)
NamesOfDated(events) ==
    IF events = <<>> THEN <<>>
    ELSE IF Head(events).date_time # <<>>
         THEN <<Head(events).name>> \o NamesOfDated(Tail(events))
         ELSE NamesOfDated(Tail(events))

\* a value that may be None, or the exception raised in computing it
None == [is_none |-> TRUE, raised |-> FALSE, value |-> <<>>]

Some(v) == [is_none |-> FALSE, raised |-> FALSE, value |-> v]

\* ValueError: max() arg is an empty sequence
MaxOfEmptyRaises == [is_none |-> FALSE, raised |-> TRUE, value |-> <<>>]

TopOfUnguarded(counts) == IF counts # <<>> THEN Some(MaxKey(counts)) ELSE MaxOfEmptyRaises

\* max(counts, key=counts.get) if counts else None
TopOf(counts) == IF counts # <<>> THEN Some(MaxKey(counts)) ELSE None

\* the fields the summary text of create_data_analysis is formatted from
create_data_analysis(events) ==
    LET person_counts == PersonCounts(events)
        activity_counts == ActivityCounts(events)
        pair_counts == PairCounts(events)
        top_person == TopOf(person_counts)
        top_activity == TopOf(activity_counts)
        best_friends == TopOf(pair_counts)
    IN  [raised |-> top_person.raised \/ top_activity.raised \/ best_friends.raised,
         total_events |-> Len(events),
         total_people |-> Len(person_counts),
         total_activities |-> Len(activity_counts),
         top_person |-> top_person,
         top_person_count |->
             IF top_person.is_none \/ top_person.raised THEN 0 ELSE DictGet(person_counts, top_person.value, 0),
         top_activity |-> top_activity,
         top_activity_count |->
             IF top_activity.is_none \/ top_activity.raised THEN 0
             ELSE DictGet(activity_counts, top_activity.value, 0),
         best_friends |-> best_friends,
         best_friends_count |->
             IF best_friends.is_none \/ best_friends.raised THEN 0
             ELSE DictGet(pair_counts, best_friends.value, 0),
         recent_events |->
             IF events # <<>> THEN LastThree(SortedStrings(NamesOfDated(events)))
             ELSE <<>>]

\* the f-string prompt: the values put into it
BuildPromptOf(events, activities, people, query) ==
    [data_context |-> [events |-> events, activities |-> activities, people |-> people],
     analysis_summary |-> create_data_analysis(events),
     question |-> query]

\* the same function without the `if pair_counts:` test
FallbackUnguarded(events, query) ==
    LET query_lower == Lower(query)
        pair_counts == PairCounts(events)
    IN  IF Contains(BestFriendsWords, query_lower) \/ Contains(TogetherWord, query_lower)
        THEN IF pair_counts = <<>> THEN Raised("max() arg is an empty sequence")
             ELSE LET best_pair == MaxKey(pair_counts)
                  IN  Returned(BestPairAnswer(best_pair,
                                              DictGet(pair_counts, best_pair, 0)),
                               "fallback")
        ELSE Returned(CannotProcessAnswer, "fallback")

fallback_query_analysis(events, query) ==
    LET query_lower == Lower(query)
        pair_counts == PairCounts(events)
    IN  IF (Contains(BestFriendsWords, query_lower) \/ Contains(TogetherWord, query_lower))
           /\ pair_counts # <<>>
        THEN LET best_pair == MaxKey(pair_counts)
             IN  Returned(BestPairAnswer(best_pair, DictGet(pair_counts, best_pair, 0)),
                          "fallback")
        ELSE Returned(CannotProcessAnswer, "fallback")

\* the except branch of process_query_with_claude
ModelFailureReraised(events, query, error) == Raised(error)

OnModelFailure(events, query, error) == fallback_query_analysis(events, query)

\* the model adapter's outcomes: a text, or a failure of some kind (a malformed
\* response fails inside the try block, at message.content[0].text)
ModelTexts == {"model text", "another model text"}

ModelErrors == {"network error", "list index out of range"}

ModelOutcomes ==
    [ok : {TRUE}, text : ModelTexts, error : {""}]
        \cup [ok : {FALSE}, text : {""}, error : ModelErrors]

AnswerAlwaysFallback(events, query, outcome) ==
    fallback_query_analysis(events, query)

\* the try/except around claude_client.messages.create
CallModelAndAnswer(events, query, outcome) ==
    IF outcome.ok
    THEN Returned(VerbatimAnswer(outcome.text), "claude_response")
    ELSE OnModelFailure(events, query, outcome.error)

\* the request bodies of POST /api/query: a body that is not a JSON object, a
\* JSON object without the key, a JSON object whose 'query' is not a string,
\* a JSON object whose 'query' is a string
NoBody == [json |-> FALSE, has_query |-> FALSE, is_str |-> FALSE, query |-> <<>>]

BodyWithoutQuery == [json |-> TRUE, has_query |-> FALSE, is_str |-> FALSE, query |-> <<>>]

BodyWithBadQuery == [json |-> TRUE, has_query |-> TRUE, is_str |-> FALSE, query |-> <<>>]

BodyWithQuery(q) == [json |-> TRUE, has_query |-> TRUE, is_str |-> TRUE, query |-> q]

\* data.get('query', '').lower().strip()
ParseQueryNoStrip(data) == Lower(IF data.has_query THEN data.query ELSE <<>>)

ParseQuery(data) == Strip(Lower(IF data.has_query THEN data.query ELSE <<>>))

\* the questions the model submits
RawQueries ==
    { <<>>,
      <<" ", " ">>,
      <<"\t", "", " ", "U+2003">>,
      <<"h", "i">>,
      <<" ", "B", "e", "s", "t", " ", "F", "r", "i", "e", "n", "d", "s", "?">>,
      <<"b", "e", "s", "t", " ", "f", "r", "i", "e", "n", "d", "s">>,
      <<"T", "o", "g", "e", "t", "h", "e", "r">> }

\* the questions of the request bodies
RequestQueries ==
    { <<>>,
      <<"\t", "", " ", "U+2003">>,
      <<" ", "B", "e", "s", "t", " ", "F", "r", "i", "e", "n", "d", "s", "?">> }

Bodies ==
    {NoBody, BodyWithoutQuery, BodyWithBadQuery}
    \cup {BodyWithQuery(q) : q \in RequestQueries}

---------------------------------------------------------------------------
(* The store's data *)

Al == <<"A", "l">>

Ali == <<"A", "l", "i">>

Bo == <<"B", "o">>

Names == {Al, Ali, Bo}

\* the n-th event of a batch, with the given people list
Event(n, people) ==
    [name |-> <<"E", Alphabet[Ord("a") + n - 1]>>,
     activity_name |-> <<"G", "o">>,
     date_time |-> <<"d", Alphabet[Ord("a") + n - 1]>>,
     people |-> people]

\* the batches of exactly k events with at most t attendee slots in all
RECURSIVE PeopleBatches(_, _)
PeopleBatches(k, t) ==
    IF k = 0 THEN {<<>>}
    ELSE UNION { { <<pl>> \o rest : pl \in [1..len -> Names],
                                    rest \in PeopleBatches(k - 1, t - len) }
                 : len \in 0..t }

EventsOf(batch) == [n \in 1..Len(batch) |-> Event(n, batch[n])]

\* the batches of at most maxEvents events with at most maxAttend attendee
\* slots in all
EventBatches(maxEvents, maxAttend) ==
    { EventsOf(b) : b \in UNION {PeopleBatches(k, maxAttend) : k \in 0..maxEvents} }

\* the batch of three events with people [A, B, C], [A, B], [C, D]
ExampleEvents ==
    EventsOf(<< << <<"A">>, <<"B">>, <<"C">> >>,
                << <<"A">>, <<"B">> >>,
                << <<"C">>, <<"D">> >> >>)

\* most events in a batch of the summary specification
MaxDated == 4

Go == <<"G", "o">>

Ski == <<"S", "k", "i">>

\* the n-th event of a summary batch: its name and its activity are chosen;
\* every stored event has a date_time, and later events have smaller ones
DatedEvent(n, choice) ==
    [name |-> choice[1],
     activity_name |-> choice[2],
     date_time |-> <<"d", Alphabet[Ord("z") - n + 1]>>,
     people |-> <<Bo, Al>>]

DatedChoices == {<<"E", "a">>, <<"E", "b">>} \X {Go, Ski}

DatedBatches(maxDated) ==
    UNION { { [n \in 1..k |-> DatedEvent(n, c[n])] : c \in [1..k -> DatedChoices] }
            : k \in 0..maxDated }

Activities == << [name |-> <<"G", "o">>, type |-> "game", indoor |-> TRUE, outdoor |-> FALSE] >>

People(events) == << >>

\* the collections, in the order create_schemas deletes and creates them
Collections == <<"Person", "Activity", "Event">>

StoreOf(events) ==
    [events |-> events, activities |-> Activities, people |-> People(events),
     exists |-> {Collections[k] : k \in 1..Len(Collections)}]

\* an event of events.json: the loader stores its 'activity' as activity_name
FileEvent(event) ==
    [name |-> event.name, activity |-> event.activity_name,
     date_time |-> event.date_time, people |-> event.people]

\* the people lists of the events.json the loader reads
FileBatches == { << <<Ali, Bo>>, <<Bo, Ali>> >> }

\* people.json, activities.json and events.json
LoaderFiles ==
    { [people |-> << [name |-> Al, gender |-> "male", birth_date |-> "1990-01-01"] >>,
       activities |-> << [name |-> Ski, type |-> "sport", indoor |-> FALSE,
                          outdoor |-> TRUE] >>,
       events |-> [n \in 1..Len(b) |-> FileEvent(Event(n, b[n]))]] : b \in FileBatches }

NoFiles == [people |-> <<>>, activities |-> <<>>, events |-> <<>>]

\* the loader script before it is run
IdleLoader == [pc |-> "idle", k |-> 1, files |-> NoFiles]

---------------------------------------------------------------------------
(* Requests: the state of one request handler *)

\* the requests in flight at the same time
Requests == {1, 2}

NoPrompt == BuildPromptOf(<<>>, <<>>, <<>>, <<>>)

NoResponse == [status |-> 0, kind |-> "none", error |-> "", type |-> "",
               answer |-> NoAnswer, friends |-> <<>>, listing |-> <<>>, event_count |-> 0]

IdleRequest ==
    [pc |-> "idle", route |-> "", arg |-> <<>>, body |-> NoBody, conn |-> "none",
     query |-> <<>>, events |-> <<>>, activities |-> <<>>, people |-> <<>>,
     hits |-> <<>>, prompt |-> NoPrompt, exc |-> "", model_calls |-> 0,
     model_text |-> "", pair_counts |-> <<>>, fetched |-> {},
     model_failed |-> FALSE, store_failed |-> FALSE, connect_failed |-> FALSE,
     resp |-> NoResponse]

---------------------------------------------------------------------------
(* The aggregation specification: the functions applied to every batch *)

NoOut == [op |-> "none", raw |-> <<>>, friends |-> <<>>, result |-> Returned(NoAnswer, ""),
          summary |-> create_data_analysis(<<>>)]

AggInit ==
    /\ store \in {StoreOf(e) : e \in EventBatches(MaxEvents, MaxAttend) \cup {ExampleEvents}}
    /\ out = NoOut
    /\ req = [r \in Requests |-> IdleRequest]
    /\ loader = IdleLoader

\* the aggregation of get_best_friends on the store's events
AggBestFriends ==
    /\ out.op = "none"
    /\ out' = [NoOut EXCEPT !.op = "best_friends",
                            !.friends = FriendsList(store.events)]
    /\ UNCHANGED <<store, req, loader>>

\* the except branch of process_query_with_claude, which runs
\* fallback_query_analysis, on an event list and a non-blank parsed question
AggFallback ==
    /\ out.op = "none"
    /\ \E raw \in RawQueries :
         LET query == ParseQuery(BodyWithQuery(raw))
         IN  /\ query # <<>>
             /\ out' = [NoOut EXCEPT
                          !.op = "fallback", !.raw = raw,
                          !.result = OnModelFailure(store.events, query, "timeout")]
    /\ UNCHANGED <<store, req, loader>>

\* create_data_analysis on the store's events
AggSummary ==
    /\ out.op = "none"
    /\ out' = [NoOut EXCEPT !.op = "summary",
                            !.summary = create_data_analysis(store.events)]
    /\ UNCHANGED <<store, req, loader>>

\* the three pair-counting sites applied to the same events: the ranking of
\* get_best_friends, create_data_analysis, and fallback_query_analysis on a
\* question with a keyword
AggThreeSites ==
    /\ out.op = "none"
    /\ \E raw \in RawQueries :
         LET query == ParseQuery(BodyWithQuery(raw))
         IN  /\ Contains(BestFriendsWords, query) \/ Contains(TogetherWord, query)
             /\ out' = [NoOut EXCEPT
                          !.op = "sites", !.raw = raw,
                          !.friends = FriendsList(store.events),
                          !.summary = create_data_analysis(store.events),
                          !.result = fallback_query_analysis(store.events, query)]
    /\ UNCHANGED <<store, req, loader>>

AggNext == AggBestFriends \/ AggFallback \/ AggThreeSites

SpecAgg == AggInit /\ [][AggNext]_vars

\* the summary specification: the summarizer and the aggregation applied to
\* every batch of people lists and to every batch of names, activities and
\* timestamps
SumInit ==
    /\ store \in {StoreOf(e) : e \in EventBatches(MaxEvents, MaxAttend) \cup DatedBatches(MaxDated)}
    /\ out = NoOut
    /\ req = [r \in Requests |-> IdleRequest]
    /\ loader = IdleLoader

SumNext == AggSummary \/ AggBestFriends

SpecSum == SumInit /\ [][SumNext]_vars

---------------------------------------------------------------------------
(* Claims about the aggregation, checked under SpecAgg *)

RECURSIVE SumCounts(_)
SumCounts(friends) ==
    IF friends = <<>> THEN 0 ELSE Head(friends).events_together + SumCounts(Tail(friends))

\* the positions <<e, i, j>>, i < j, of the batch whose two names differ
DistinctNamePositions(events) ==
    { p \in (1..Len(events)) \X (1..MaxAttend) \X (1..MaxAttend) :
        /\ p[2] < p[3]
        /\ p[3] <= Len(events[p[1]].people)
        /\ events[p[1]].people[p[2]] # events[p[1]].people[p[3]] }

\* C1: the list returned by the best-friends aggregation is sorted
\* non-increasing by events_together.
C1_SortedNonIncreasing ==
    out.op = "best_friends" =>
        \A n \in 1..(Len(out.friends) - 1) :
            out.friends[n].events_together >= out.friends[n + 1].events_together

\* a batch without repeated names whose pairs were first counted in increasing
\* order of count, so the sort had to move a later-inserted pair to the front
C1_Witness ==
    LET pair_counts == PairCounts(store.events)
    IN  /\ out.op = "best_friends"
        /\ Len(pair_counts) >= 2
        /\ pair_counts[1][2] < pair_counts[Len(pair_counts)][2]
        /\ out.friends[1].events_together > out.friends[Len(out.friends)].events_together
        /\ \A n \in 1..Len(out.friends) : out.friends[n].person1 # out.friends[n].person2

\* C2: the output holds at most one entry per unordered name pair.
C2_OneEntryPerUnorderedPair ==
    out.op = "best_friends" =>
        \A m, n \in 1..Len(out.friends) :
            m # n => {out.friends[m].person1, out.friends[m].person2}
                        # {out.friends[n].person1, out.friends[n].person2}

\* two different names that stand in one order in the first event and in the
\* other order in the second, counted under one entry
C2_Witness ==
    /\ out.op = "best_friends"
    /\ Len(store.events) = 2
    /\ \E x, y \in Names :
         /\ x # y
         /\ \E i, j \in 1..Len(store.events[1].people) :
              i < j /\ store.events[1].people[i] = x /\ store.events[1].people[j] = y
         /\ \E i, j \in 1..Len(store.events[2].people) :
              i < j /\ store.events[2].people[i] = y /\ store.events[2].people[j] = x
         /\ \E n \in 1..Len(out.friends) :
              /\ {out.friends[n].person1, out.friends[n].person2} = {x, y}
              /\ out.friends[n].events_together >= 2

\* C3: every output entry has person1 strictly less than person2 (no
\* self-pair), also when a people list repeats a name.
C3_NoSelfPair ==
    out.op = "best_friends" =>
        \A n \in 1..Len(out.friends) :
            StrLess(out.friends[n].person1, out.friends[n].person2)

\* C4: the counts sum to the number of position pairs i < j whose two names
\* differ.
C4_SumIsDistinctNamePairs ==
    out.op = "best_friends" =>
        SumCounts(out.friends) = Cardinality(DistinctNamePositions(store.events))

\* C5: when the model call fails and the question contains "best friends",
\* the result has type "fallback" and names the pair and count that stand
\* first in the best-friends ranking of the same events, ties included.
C5_FallbackNamesFirstRanked ==
    LET friends == FriendsList(store.events)
    IN  (/\ out.op = "fallback"
         /\ Contains(BestFriendsWords, Lower(out.raw))
         /\ friends # <<>>)
        => /\ ~out.result.raised
           /\ out.result.type = "fallback"
           /\ out.result.answer =
                BestPairAnswer(<<friends[1].person1, friends[1].person2>>,
                               friends[1].events_together)

\* a fallback answer on a batch where several pairs tie for the greatest count
C5_Witness ==
    LET friends == FriendsList(store.events)
    IN  /\ out.op = "fallback"
        /\ Contains(BestFriendsWords, Lower(out.raw))
        /\ Len(friends) >= 2
        /\ friends[1].events_together = friends[2].events_together
        /\ out.result.answer.person1 = friends[1].person1
        /\ out.result.answer.person2 = friends[1].person2

\* C12: on the batch [A,B,C], [A,B], [C,D] the aggregation yields exactly the
\* pairs (A,B)=2, (A,C)=1, (B,C)=1, (C,D)=1, and the top pair is (A,B) with
\* count 2.
C12_ExampleBatch ==
    (out.op = "best_friends" /\ store.events = ExampleEvents)
    => /\ Len(out.friends) = 4
       /\ {out.friends[n] : n \in 1..Len(out.friends)} =
            { [person1 |-> <<"A">>, person2 |-> <<"B">>, events_together |-> 2],
              [person1 |-> <<"A">>, person2 |-> <<"C">>, events_together |-> 1],
              [person1 |-> <<"B">>, person2 |-> <<"C">>, events_together |-> 1],
              [person1 |-> <<"C">>, person2 |-> <<"D">>, events_together |-> 1] }
       /\ out.friends[1] =
            [person1 |-> <<"A">>, person2 |-> <<"B">>, events_together |-> 2]

\* the aggregation has run on the example batch
C12_Witness ==
    /\ out.op = "best_friends"
    /\ store.events = ExampleEvents
    /\ out.friends # <<>>

HasKeyword(raw) ==
    Contains(BestFriendsWords, Lower(raw)) \/ Contains(TogetherWord, Lower(raw))

\* C19: the fallback analysis never raises and always returns type
\* "fallback": with a keyword in the lowercased question and at least one
\* pair it answers with a pair of greatest count, in every other case with the
\* fixed cannot-process message.
C19_FallbackAlwaysAnswers ==
    out.op = "fallback"
    => LET friends == FriendsList(store.events)
       IN  /\ ~out.result.raised
           /\ out.result.type = "fallback"
           /\ IF HasKeyword(out.raw) /\ friends # <<>>
              THEN /\ out.result.answer.template =
                        "{0} and {1} are the best friends with {2} events together."
                   /\ \E n \in 1..Len(friends) :
                        /\ friends[n].person1 = out.result.answer.person1
                        /\ friends[n].person2 = out.result.answer.person2
                        /\ friends[n].events_together = out.result.answer.count
                   /\ \A n \in 1..Len(friends) :
                        friends[n].events_together <= out.result.answer.count
              ELSE out.result.answer = CannotProcessAnswer

\* a question with a keyword asked over events that yield no pair at all,
\* answered with the fixed message
C19_Witness ==
    /\ out.op = "fallback"
    /\ HasKeyword(out.raw)
    /\ store.events # <<>>
    /\ PairCounts(store.events) = <<>>
    /\ out.result.type = "fallback"
    /\ out.result.answer = CannotProcessAnswer

\* C21: on every event list the top pair and count of the summarizer and of
\* the fallback are the first entry of the best-friends ranking of the same
\* list, also when several pairs tie for the greatest count; with no pair at
\* all the summarizer has no best pair and the fallback gives its fixed message.
C21_ThreeSitesAgree ==
    out.op = "sites"
    => IF out.friends = <<>>
       THEN /\ out.summary.best_friends.is_none
            /\ out.result.answer = CannotProcessAnswer
       ELSE LET top == out.friends[1]
            IN  /\ ~out.summary.raised
                /\ ~out.summary.best_friends.is_none
                /\ out.summary.best_friends.value = <<top.person1, top.person2>>
                /\ out.summary.best_friends_count = top.events_together
                /\ ~out.result.raised
                /\ out.result.answer.person1 = top.person1
                /\ out.result.answer.person2 = top.person2
                /\ out.result.answer.count = top.events_together

\* the three sites on a batch where three different pairs tie for the
\* greatest count
C21_Witness ==
    /\ out.op = "sites"
    /\ Len(out.friends) >= 3
    /\ out.friends[1].events_together = out.friends[3].events_together
    /\ out.friends[1].person1 # out.friends[1].person2
    /\ out.summary.best_friends.value = <<out.friends[1].person1, out.friends[1].person2>>
    /\ out.result.answer.person1 = out.friends[1].person1
    /\ out.result.answer.person2 = out.friends[1].person2

RemoveAt(seq, n) == SubSeq(seq, 1, n - 1) \o SubSeq(seq, n + 1, Len(seq))

InsertAt(seq, n, e) == SubSeq(seq, 1, n - 1) \o <<e>> \o SubSeq(seq, n, Len(seq))

\* the people lists of 0 or 1 attendees
ShortPeople == {<<>>} \cup {<<x>> : x \in Names}

\* C22: an event with 0 or 1 attendees contributes no pairs: taking such an
\* event out of the batch, or putting one in at any position, leaves the
\* aggregation's pairs and counts as they are.
C22_ShortEventContributesNothing ==
    out.op = "best_friends"
    => /\ \A n \in 1..Len(store.events) :
            Len(store.events[n].people) <= 1
            => FriendsList(RemoveAt(store.events, n)) = out.friends
       /\ \A n \in 1..(Len(store.events) + 1) : \A people \in ShortPeople :
            FriendsList(InsertAt(store.events, n, Event(n, people))) = out.friends

\* a batch of an event with one attendee and an event that yields pairs
C22_Witness ==
    /\ out.op = "best_friends"
    /\ out.friends # <<>>
    /\ \E n \in 1..Len(store.events) :
         /\ Len(store.events[n].people) = 1
         /\ FriendsList(RemoveAt(store.events, n)) = out.friends

\* no people list names anyone twice
NoRepeatedName(events) ==
    \A n \in 1..Len(events) :
        \A i, j \in 1..Len(events[n].people) :
            i < j => events[n].people[i] # events[n].people[j]

Attends(x, event) == \E i \in 1..Len(event.people) : event.people[i] = x

\* the number of events that both x and y attend
EventsTogether(x, y, events) ==
    Cardinality({n \in 1..Len(events) : Attends(x, events[n]) /\ Attends(y, events[n])})

Attendees(events) ==
    UNION {{events[n].people[i] : i \in 1..Len(events[n].people)} : n \in 1..Len(events)}

\* C24: when no people list repeats a name, every output pair has a count of
\* at least 1 that is the number of events attended by both of its people,
\* and every two distinct people who share an event are in the output.
C24_CountIsSharedEvents ==
    (out.op = "best_friends" /\ NoRepeatedName(store.events))
    => /\ \A n \in 1..Len(out.friends) :
            /\ out.friends[n].events_together >= 1
            /\ out.friends[n].events_together =
                 EventsTogether(out.friends[n].person1, out.friends[n].person2,
                                store.events)
       /\ \A x, y \in Attendees(store.events) :
            (x # y /\ EventsTogether(x, y, store.events) >= 1)
            => \E n \in 1..Len(out.friends) :
                 {out.friends[n].person1, out.friends[n].person2} = {x, y}

\* two events without repeated names: one pair shares both, another pair
\* shares one only
C24_Witness ==
    /\ out.op = "best_friends"
    /\ NoRepeatedName(store.events)
    /\ Len(store.events) = 2
    /\ \E n, m \in 1..Len(out.friends) :
         /\ out.friends[n].events_together = 2
         /\ out.friends[m].events_together = 1
         /\ EventsTogether(out.friends[n].person1, out.friends[n].person2,
                           store.events) = 2

---------------------------------------------------------------------------
(* Claims about the summarizer, checked under SpecSum *)

\* C13: on an empty event list the aggregation returns an empty list, and the
\* summarizer returns without raising, with all three totals 0, most active
\* person and most popular activity None with count 0, and no top pair.
C13_EmptyInput ==
    store.events = <<>>
    => /\ out.op = "best_friends" => out.friends = <<>>
       /\ out.op = "summary"
            => /\ ~out.summary.raised
               /\ out.summary.total_events = 0
               /\ out.summary.total_people = 0
               /\ out.summary.total_activities = 0
               /\ out.summary.top_person = None
               /\ out.summary.top_person_count = 0
               /\ out.summary.top_activity = None
               /\ out.summary.top_activity_count = 0
               /\ out.summary.best_friends = None
               /\ out.summary.recent_events = <<>>

\* the summarizer has run on the empty event list
C13_Witness ==
    /\ store.events = <<>>
    /\ out.op = "summary"
    /\ out.summary.top_person.is_none

\* the events that have a date_time, in increasing order of date_time
RECURSIVE InsertByDate(_, _)
InsertByDate(sorted, e) ==
    IF sorted = <<>> THEN <<e>>
    ELSE IF StrLess(e.date_time, Head(sorted).date_time) THEN <<e>> \o sorted
    ELSE <<Head(sorted)>> \o InsertByDate(Tail(sorted), e)

RECURSIVE DatedByDate(_, _)
DatedByDate(sorted, events) ==
    IF events = <<>> THEN sorted
    ELSE IF Head(events).date_time # <<>>
         THEN DatedByDate(InsertByDate(sorted, Head(events)), Tail(events))
         ELSE DatedByDate(sorted, Tail(events))

\* the events with the three greatest timestamps
LatestThree(events) ==
    LET dated == DatedByDate(<<>>, events)
    IN  SubSeq(dated, IF Len(dated) > 3 THEN Len(dated) - 2 ELSE 1, Len(dated))

\* how often a value stands in a sequence
Times(x, seq) == Cardinality({n \in 1..Len(seq) : seq[n] = x})

\* C17: the summarizer's recent events are the names of the three events with
\* the greatest non-null timestamps (compared as collections of names, in any
\* order); events without a timestamp are left out.
C17_RecentByTimestamp ==
    out.op = "summary"
    => LET latest == LatestThree(store.events)
           names == [n \in 1..Len(latest) |-> latest[n].name]
       IN  \A e \in {store.events[n].name : n \in 1..Len(store.events)}
                    \cup {out.summary.recent_events[n] :
                            n \in 1..Len(out.summary.recent_events)} :
               Times(e, out.summary.recent_events) = Times(e, names)

\* the occurrences <<event, position>> of a name in the people lists
Occurrences(name, events) ==
    { p \in (1..Len(events)) \X (1..(MaxAttend + 1)) :
        /\ p[2] <= Len(events[p[1]].people)
        /\ events[p[1]].people[p[2]] = name }

\* p stands before q in reading order
Before(p, q) == p[1] < q[1] \/ (p[1] = q[1] /\ p[2] < q[2])

FirstOccurrence(name, events) ==
    CHOOSE p \in Occurrences(name, events) :
        \A q \in Occurrences(name, events) : q = p \/ Before(p, q)

PeopleSeen(events) ==
    UNION { {events[n].people[i] : i \in 1..Len(events[n].people)} : n \in 1..Len(events) }

\* the events, by position, of an activity
EventsOfActivity(activity, events) ==
    { n \in 1..Len(events) : events[n].activity_name = activity }

ActivitiesSeen(events) == {events[n].activity_name : n \in 1..Len(events)}

FirstEventOf(activity, events) ==
    CHOOSE n \in EventsOfActivity(activity, events) :
        \A m \in EventsOfActivity(activity, events) : n <= m

\* C20: the most active person is a name with the greatest number of
\* occurrences in the people lists (every occurrence counted), the most
\* popular activity is an activity_name with the greatest number of events,
\* and among candidates of equal count the one seen first wins.
C20_TopPersonAndActivity ==
    out.op = "summary"
    => LET events == store.events
           person == out.summary.top_person
           activity == out.summary.top_activity
       IN  /\ person.is_none = (PeopleSeen(events) = {})
           /\ ~person.is_none
                => /\ person.value \in PeopleSeen(events)
                   /\ out.summary.top_person_count =
                        Cardinality(Occurrences(person.value, events))
                   /\ \A q \in PeopleSeen(events) \ {person.value} :
                        \/ Cardinality(Occurrences(q, events))
                             < Cardinality(Occurrences(person.value, events))
                        \/ /\ Cardinality(Occurrences(q, events))
                                = Cardinality(Occurrences(person.value, events))
                           /\ Before(FirstOccurrence(person.value, events),
                                     FirstOccurrence(q, events))
           /\ activity.is_none = (events = <<>>)
           /\ ~activity.is_none
                => /\ activity.value \in ActivitiesSeen(events)
                   /\ out.summary.top_activity_count =
                        Cardinality(EventsOfActivity(activity.value, events))
                   /\ \A b \in ActivitiesSeen(events) \ {activity.value} :
                        \/ Cardinality(EventsOfActivity(b, events))
                             < Cardinality(EventsOfActivity(activity.value, events))
                        \/ /\ Cardinality(EventsOfActivity(b, events))
                                = Cardinality(EventsOfActivity(activity.value, events))
                           /\ FirstEventOf(activity.value, events)
                                < FirstEventOf(b, events)

\* a batch where two people tie and two activities tie, and in both cases the
\* winner is the one seen first although the other is lexically smaller
C20_Witness ==
    /\ out.op = "summary"
    /\ out.summary.top_person.value = Bo
    /\ Cardinality(Occurrences(Al, store.events))
         = Cardinality(Occurrences(Bo, store.events))
    /\ out.summary.top_activity.value = Ski
    /\ Cardinality(EventsOfActivity(Go, store.events))
         = Cardinality(EventsOfActivity(Ski, store.events))

---------------------------------------------------------------------------
(* The request handlers, step by step *)

Routes == {"events", "activity", "best_friends", "person", "query"}

\* the stores the handlers run against
StoreBatches ==
    { << <<Al, Bo>>, <<Ali, Bo>> >>,
      << <<Al, Al, Bo>> >> }

ConnectError == "connection to the store failed"

StoreError == "store query failed"

\* a request whose body is not a JSON object: request.get_json() raises (415
\* without a JSON content type, 400 on malformed JSON; the HTTP errors are
\* named by their status line), or data is None, a list, a string, a number
\* or a boolean and data.get raises AttributeError
GetJsonErrors ==
    {"415 Unsupported Media Type",
     "400 Bad Request",
     "'NoneType' object has no attribute 'get'",
     "'list' object has no attribute 'get'",
     "'str' object has no attribute 'get'",
     "'int' object has no attribute 'get'",
     "'float' object has no attribute 'get'",
     "'bool' object has no attribute 'get'"}

\* a 'query' that is null, a number, a boolean, a list or an object:
\* data.get('query', '').lower() raises AttributeError
LowerErrors ==
    {"'NoneType' object has no attribute 'lower'",
     "'int' object has no attribute 'lower'",
     "'float' object has no attribute 'lower'",
     "'bool' object has no attribute 'lower'",
     "'list' object has no attribute 'lower'",
     "'dict' object has no attribute 'lower'"}

\* jsonify(...) with status 200
OkResponse == [NoResponse EXCEPT !.status = 200, !.kind = "json"]

\* return jsonify({'error': str(e)}), 500
ErrorResponse(e) == [NoResponse EXCEPT !.status = 500, !.kind = "json", !.error = e]

\* return jsonify({'error': 'Query is required'}), 400
QueryRequiredResponse ==
    [NoResponse EXCEPT !.status = 400, !.kind = "json", !.error = "Query is required"]

\* an exception that leaves the view function: the framework answers 500 with
\* its own HTML page, not with a JSON body
UnhandledExceptionResponse(e) == [NoResponse EXCEPT !.status = 500, !.kind = "html"]

\* client.close()
ClientCloseSkipped(conn) == conn

ClientClose(conn) == "closed"

\* `not query`
IsBlank(query) == query = <<>>

\* query.bm25(...): a relevance-ranked full-text search; any of the store's
\* events may be among the hits, each once, in the order of their rank
RankedHits(seq) ==
    UNION { { [i \in 1..k |-> seq[p[i]]] :
                p \in { f \in [1..k -> 1..Len(seq)] :
                          \A i, j \in 1..k : i # j => f[i] # f[j] } }
            : k \in 0..Len(seq) }

IsMember(x, seq) == \E n \in 1..Len(seq) : seq[n] = x

FilterNone(person_name, hits) == hits

\* the loop that keeps a hit only if person_name is an element of its people
RECURSIVE FilterByPerson(_, _)
FilterByPerson(person_name, hits) ==
    IF hits = <<>> THEN <<>>
    ELSE IF IsMember(person_name, Head(hits).people)
         THEN <<Head(hits)>> \o FilterByPerson(person_name, Tail(hits))
         ELSE FilterByPerson(person_name, Tail(hits))

Init ==
    /\ store \in {StoreOf(EventsOf(b)) : b \in StoreBatches}
    /\ out = NoOut
    /\ req = [r \in Requests |-> IdleRequest]
    /\ loader = IdleLoader

\* a request arrives; the requests are numbered in the order of their arrival
Begin(r) ==
    /\ req[r].pc = "idle"
    /\ \A q \in Requests : q < r => req[q].pc # "idle"
    /\ \E route \in Routes :
         \/ /\ route \in {"events", "best_friends"}
            /\ req' = [req EXCEPT ![r].route = route, ![r].pc = "connect"]
         \/ /\ route = "activity"
            /\ req' = [req EXCEPT ![r].route = route, ![r].arg = <<"G", "o">>,
                                   ![r].pc = "connect"]
         \/ /\ route = "person"
            /\ \E name \in {Al} :
                 req' = [req EXCEPT ![r].route = route, ![r].arg = name,
                                    ![r].pc = "connect"]
         \/ /\ route = "query"
            /\ \E body \in Bodies :
                 req' = [req EXCEPT ![r].route = route, ![r].body = body,
                                    ![r].pc = "connect"]
    /\ UNCHANGED <<store, out, loader>>

\* client = get_weaviate_client(), the statement before the try block
Connect(r) ==
    /\ req[r].pc = "connect"
    /\ \/ req' = [req EXCEPT ![r].conn = "open", ![r].pc = "try"]
       \/ req' = [req EXCEPT ![r].connect_failed = TRUE,
                             ![r].exc = ConnectError,
                             ![r].resp = UnhandledExceptionResponse(ConnectError),
                             ![r].pc = "done"]
    /\ UNCHANGED <<store, out, loader>>

\* a failed fetch of the query pipeline taken for an empty result
StoreFailureSwallowed(request) ==
    [request EXCEPT !.store_failed = TRUE,
                    !.pc = IF request.pc = "try" THEN "except" ELSE "prompt"]

\* a store query that raises is caught by nothing before the handler's own
\* `except Exception`
StoreFailureRaised(request) ==
    [request EXCEPT !.store_failed = TRUE, !.exc = StoreError, !.pc = "except"]

\* a store query inside the try block fails: the call does not get through,
\* or the collection it asks for does not exist
StoreFails(r, pcs) ==
    /\ req[r].pc \in pcs
    /\ req' = [req EXCEPT ![r] = StoreFailureRaised(req[r])]

\* the try block of get_events
TryEvents(r) ==
    /\ req[r].route = "events"
    /\ \/ /\ req[r].pc = "try"
          /\ "Event" \in store.exists
          /\ req' = [req EXCEPT ![r].hits = store.events,
                                ![r].resp = [OkResponse EXCEPT
                                               !.listing = store.events],
                                ![r].pc = "finally"]
       \/ StoreFails(r, {"try"})
    /\ UNCHANGED <<store, out, loader>>

\* the try block of get_events_by_activity
TryActivity(r) ==
    /\ req[r].route = "activity"
    /\ \/ /\ req[r].pc = "try"
          /\ "Event" \in store.exists
          /\ \E hits \in RankedHits(store.events) :
               req' = [req EXCEPT ![r].hits = hits,
                                  ![r].resp = [OkResponse EXCEPT
                                                 !.listing = hits,
                                                 !.event_count = Len(hits)],
                                  ![r].pc = "finally"]
       \/ StoreFails(r, {"try"})
    /\ UNCHANGED <<store, out, loader>>

PairCountsOfModule(r) == 1

\* pair_counts is a local of the handler call: the dict of request r is the
\* one in r's own frame
PairCountsOf(r) == r

\* the try block of get_best_friends: the fetch and pair_counts = {}
TryBestFriends(r) ==
    /\ req[r].route = "best_friends"
    /\ \/ /\ req[r].pc = "try"
          /\ "Event" \in store.exists
          /\ req' = [req EXCEPT ![r].hits = store.events,
                                ![PairCountsOf(r)].pair_counts = <<>>,
                                ![r].pc = "count"]
       \/ StoreFails(r, {"try"})
    /\ UNCHANGED <<store, out, loader>>

\* the try block of get_best_friends: the counting loops, the sort and the
\* response
CountBestFriends(r) ==
    /\ req[r].route = "best_friends"
    /\ req[r].pc = "count"
    /\ LET pair_counts == CountPairs(req[PairCountsOf(r)].pair_counts, req[r].hits)
       IN  req' = [req EXCEPT ![PairCountsOf(r)].pair_counts = pair_counts,
                              ![r].resp = [OkResponse EXCEPT
                                             !.friends = FriendsListFrom(pair_counts)],
                              ![r].pc = "finally"]
    /\ UNCHANGED <<store, out, loader>>

\* the try block of get_events_by_person
TryPerson(r) ==
    /\ req[r].route = "person"
    /\ \/ /\ req[r].pc = "try"
          /\ "Event" \in store.exists
          /\ \E hits \in RankedHits(store.events) :
               LET events == FilterByPerson(req[r].arg, hits)
               IN  req' = [req EXCEPT ![r].hits = hits,
                                      ![r].resp = [OkResponse EXCEPT
                                                     !.listing = events,
                                                     !.event_count = Len(events)],
                                      ![r].pc = "finally"]
       \/ StoreFails(r, {"try"})
    /\ UNCHANGED <<store, out, loader>>

\* query_friends: data = request.get_json(); query = ...; if not query: return 400
GetJson(r) ==
    /\ req[r].route = "query"
    /\ req[r].pc = "try"
    /\ IF ~req[r].body.json
       THEN \E e \in GetJsonErrors :
              req' = [req EXCEPT ![r].exc = e, ![r].pc = "except"]
       ELSE IF req[r].body.has_query /\ ~req[r].body.is_str
       THEN \E e \in LowerErrors :
              req' = [req EXCEPT ![r].exc = e, ![r].pc = "except"]
       ELSE LET query == ParseQuery(req[r].body)
            IN  IF IsBlank(query)
                THEN req' = [req EXCEPT ![r].query = query,
                                        ![r].resp = QueryRequiredResponse,
                                        ![r].pc = "finally"]
                ELSE req' = [req EXCEPT ![r].query = query, ![r].pc = "fetch_events"]
    /\ UNCHANGED <<store, out, loader>>

\* process_query_with_claude: the three fetches, in order
FetchEvents(r) ==
    /\ req[r].route = "query"
    /\ \/ /\ req[r].pc = "fetch_events"
          /\ "Event" \in store.exists
          /\ req' = [req EXCEPT ![r].events = store.events,
                                ![r].fetched = @ \cup {"Event"},
                                ![r].pc = "fetch_activities"]
       \/ StoreFails(r, {"fetch_events"})
    /\ UNCHANGED <<store, out, loader>>

FetchActivities(r) ==
    /\ req[r].route = "query"
    /\ \/ /\ req[r].pc = "fetch_activities"
          /\ "Activity" \in store.exists
          /\ req' = [req EXCEPT ![r].activities = store.activities,
                                ![r].fetched = @ \cup {"Activity"},
                                ![r].pc = "fetch_people"]
       \/ StoreFails(r, {"fetch_activities"})
    /\ UNCHANGED <<store, out, loader>>

FetchPeople(r) ==
    /\ req[r].route = "query"
    /\ \/ /\ req[r].pc = "fetch_people"
          /\ "Person" \in store.exists
          /\ req' = [req EXCEPT ![r].people = store.people,
                                ![r].fetched = @ \cup {"Person"},
                                ![r].pc = "prompt"]
       \/ StoreFails(r, {"fetch_people"})
    /\ UNCHANGED <<store, out, loader>>

\* process_query_with_claude: data_context and the prompt
BuildPrompt(r) ==
    /\ req[r].route = "query"
    /\ req[r].pc = "prompt"
    /\ LET prompt == BuildPromptOf(req[r].events, req[r].activities,
                                   req[r].people, req[r].query)
       IN  IF prompt.analysis_summary.raised
           THEN req' = [req EXCEPT ![r].exc = "max() arg is an empty sequence",
                                   ![r].pc = "except"]
           ELSE req' = [req EXCEPT ![r].prompt = prompt, ![r].pc = "model"]
    /\ UNCHANGED <<store, out, loader>>

RetryAfterFailure(outcome) == IF outcome.ok THEN "finally" ELSE "model"

\* both branches of the try/except return: the answer goes back to
\* query_friends, which returns it; a failed call is not made again
PcAfterModelCall(outcome) == "finally"

\* process_query_with_claude: the model call in its try/except, and the return
\* to query_friends
CallModel(r) ==
    /\ req[r].route = "query"
    /\ req[r].pc = "model"
    /\ \E outcome \in ModelOutcomes :
         LET result == CallModelAndAnswer(req[r].events, req[r].query, outcome)
         IN  IF result.raised
             THEN req' = [req EXCEPT ![r].model_calls = @ + 1,
                                     ![r].model_failed = ~outcome.ok,
                                     ![r].model_text = outcome.text,
                                     ![r].exc = result.error,
                                     ![r].pc = "except"]
             ELSE req' = [req EXCEPT ![r].model_calls = @ + 1,
                                     ![r].model_failed = ~outcome.ok,
                                     ![r].model_text = outcome.text,
                                     ![r].resp = [OkResponse EXCEPT
                                                    !.answer = result.answer,
                                                    !.type = result.type],
                                     ![r].pc = PcAfterModelCall(outcome)]
    /\ UNCHANGED <<store, out, loader>>

\* except Exception as e: return jsonify({'error': str(e)}), 500
Except(r) ==
    /\ req[r].pc = "except"
    /\ req' = [req EXCEPT ![r].resp = ErrorResponse(req[r].exc), ![r].pc = "finally"]
    /\ UNCHANGED <<store, out, loader>>

\* finally: client.close()
Finally(r) ==
    /\ req[r].pc = "finally"
    /\ req' = [req EXCEPT ![r].conn = ClientClose(req[r].conn), ![r].pc = "done"]
    /\ UNCHANGED <<store, out, loader>>

\* load_data_to_weaviate.main(): connect, read the three JSON files
LoaderStart ==
    /\ loader.pc = "idle"
    /\ \E files \in LoaderFiles : loader' = [pc |-> "exists", k |-> 1, files |-> files]
    /\ UNCHANGED <<store, out, req>>

\* the store without a collection and its objects
Deleted(s, name) ==
    [s EXCEPT !.exists = @ \ {name},
              !.people = IF name = "Person" THEN <<>> ELSE @,
              !.activities = IF name = "Activity" THEN <<>> ELSE @,
              !.events = IF name = "Event" THEN <<>> ELSE @]

\* create_schemas, after the collection of place k: the check of the next
\* one, or the creation of the first
AfterDelete(l) ==
    IF l.k < Len(Collections)
    THEN [l EXCEPT !.pc = "exists", !.k = @ + 1]
    ELSE [l EXCEPT !.pc = "create", !.k = 1]

\* create_schemas: if client.collections.exists(name)
CreateSchemasExists ==
    /\ loader.pc = "exists"
    /\ loader' = IF Collections[loader.k] \in store.exists
                 THEN [loader EXCEPT !.pc = "delete"]
                 ELSE AfterDelete(loader)
    /\ UNCHANGED <<store, out, req>>

\* create_schemas: client.collections.delete(name), of a collection the check
\* has found
CreateSchemasDelete ==
    /\ loader.pc = "delete"
    /\ Collections[loader.k] \in store.exists
    /\ store' = Deleted(store, Collections[loader.k])
    /\ loader' = AfterDelete(loader)
    /\ UNCHANGED <<out, req>>

\* the first phase, from the given one on, that has something to insert
RECURSIVE InsertFrom(_, _)
InsertFrom(phase, files) ==
    IF phase = "insert_people"
    THEN IF files.people # <<>> THEN phase ELSE InsertFrom("insert_activities", files)
    ELSE IF phase = "insert_activities"
    THEN IF files.activities # <<>> THEN phase ELSE InsertFrom("insert_events", files)
    ELSE IF phase = "insert_events" /\ files.events # <<>> THEN phase
    ELSE "done"

\* create_schemas: client.collections.create(name, ...), a new empty collection
CreateSchemasCreate ==
    /\ loader.pc = "create"
    /\ store' = [store EXCEPT !.exists = @ \cup {Collections[loader.k]}]
    /\ loader' = IF loader.k < Len(Collections)
                 THEN [loader EXCEPT !.k = @ + 1]
                 ELSE [loader EXCEPT !.pc = InsertFrom("insert_people", loader.files),
                                     !.k = 1]
    /\ UNCHANGED <<out, req>>

\* insert_people: one person_collection.data.insert
InsertPeople ==
    /\ loader.pc = "insert_people"
    /\ store' = [store EXCEPT !.people = Append(@, loader.files.people[loader.k])]
    /\ loader' = IF loader.k < Len(loader.files.people)
                 THEN [loader EXCEPT !.k = @ + 1]
                 ELSE [loader EXCEPT !.pc = InsertFrom("insert_activities", loader.files),
                                     !.k = 1]
    /\ UNCHANGED <<out, req>>

\* insert_activities: one activity_collection.data.insert
InsertActivities ==
    /\ loader.pc = "insert_activities"
    /\ store' = [store EXCEPT !.activities = Append(@, loader.files.activities[loader.k])]
    /\ loader' = IF loader.k < Len(loader.files.activities)
                 THEN [loader EXCEPT !.k = @ + 1]
                 ELSE [loader EXCEPT !.pc = InsertFrom("insert_events", loader.files),
                                     !.k = 1]
    /\ UNCHANGED <<out, req>>

\* the properties insert_events stores for an event of events.json
StoredEvent(event) ==
    [name |-> event.name, activity_name |-> event.activity,
     date_time |-> event.date_time, people |-> event.people]

\* insert_events: one event_collection.data.insert
InsertEvents ==
    /\ loader.pc = "insert_events"
    /\ store' = [store EXCEPT !.events =
                                Append(@, StoredEvent(loader.files.events[loader.k]))]
    /\ loader' = IF loader.k < Len(loader.files.events)
                 THEN [loader EXCEPT !.k = @ + 1]
                 ELSE [loader EXCEPT !.pc = "done", !.k = 1]
    /\ UNCHANGED <<out, req>>

\* main: a call to the store raises; except prints the error, finally closes
LoaderFails ==
    /\ loader.pc \in {"exists", "delete", "create", "insert_people", "insert_activities",
                      "insert_events"}
    /\ loader' = [loader EXCEPT !.pc = "done", !.k = 1]
    /\ UNCHANGED <<store, out, req>>

Loader ==
    \/ LoaderStart
    \/ CreateSchemasExists
    \/ CreateSchemasDelete
    \/ CreateSchemasCreate
    \/ InsertPeople
    \/ InsertActivities
    \/ InsertEvents
    \/ LoaderFails

\* the steps of the handler of request r
Handler(r) ==
        \/ Begin(r)
        \/ Connect(r)
        \/ TryEvents(r)
        \/ TryActivity(r)
        \/ TryBestFriends(r)
        \/ CountBestFriends(r)
        \/ TryPerson(r)
        \/ GetJson(r)
        \/ FetchEvents(r)
        \/ FetchActivities(r)
        \/ FetchPeople(r)
        \/ BuildPrompt(r)
        \/ CallModel(r)
        \/ Except(r)
        \/ Finally(r)

\* one request at a time, and the loader
Next == Handler(1) \/ Loader

Spec == Init /\ [][Next]_vars

\* the stores the requests in flight together start against
ConcBatches == { << <<Al, Bo>>, <<Ali, Bo>> >> }

ConcInit ==
    /\ store \in {StoreOf(EventsOf(b)) : b \in ConcBatches}
    /\ out = NoOut
    /\ req = [r \in Requests |-> IdleRequest]
    /\ loader = IdleLoader

\* the requests in flight together, and the loader
ConcNext == (\E r \in Requests : Handler(r)) \/ Loader

SpecConc == ConcInit /\ [][ConcNext]_vars

---------------------------------------------------------------------------
(* Claims about the request handlers, checked under Spec *)

\* a submitted question that is empty or consists of whitespace only
WhitespaceOnly(raw) == \A i \in 1..Len(raw) : IsSpace(raw[i])

\* a query request whose body is a JSON object with a string under 'query'
SentQuery(r) ==
    /\ req[r].route = "query"
    /\ req[r].body.json
    /\ req[r].body.has_query
    /\ req[r].body.is_str

\* C6: a query request with a non-blank question, an established connection
\* and successful store fetches ends in Answered ("claude_response") or
\* FallbackAnswered ("fallback"), never in an error response; a failed model
\* call gives the fallback.
C6_ModelFailureNeverAnError ==
    \A r \in Requests :
        (/\ req[r].pc = "done"
         /\ SentQuery(r)
         /\ ~WhitespaceOnly(req[r].body.query)
         /\ ~req[r].connect_failed
         /\ ~req[r].store_failed)
        => /\ req[r].resp.status = 200
           /\ req[r].resp.kind = "json"
           /\ req[r].resp.error = ""
           /\ req[r].resp.type \in {"claude_response", "fallback"}
           /\ (req[r].resp.type = "fallback") = req[r].model_failed

\* a finished query request whose model call failed and that was answered by
\* the fallback
C6_Witness ==
    \E r \in Requests :
        /\ req[r].pc = "done"
        /\ SentQuery(r)
        /\ req[r].model_calls = 1
        /\ req[r].model_failed
        /\ req[r].resp.status = 200
        /\ req[r].resp.type = "fallback"

\* C7 as stated: an empty or whitespace-only query is rejected with HTTP 400,
\* error 'Query is required', and the model adapter is never called.
C7_BlankAlways400 ==
    \A r \in Requests :
        (req[r].pc = "done" /\ SentQuery(r) /\ WhitespaceOnly(req[r].body.query))
        => /\ req[r].resp = QueryRequiredResponse
           /\ req[r].model_calls = 0

\* C7 amended: an empty or whitespace-only query never reaches the model
\* adapter, and once the store connection is established the request ends with
\* HTTP 400, error 'Query is required'.
C7_BlankRejectedOnceConnected ==
    \A r \in Requests :
        (SentQuery(r) /\ WhitespaceOnly(req[r].body.query))
        => /\ req[r].model_calls = 0
           /\ req[r].pc \notin {"fetch_events", "fetch_activities", "fetch_people",
                                "prompt", "model"}
           /\ (req[r].pc = "done" /\ ~req[r].connect_failed)
                => req[r].resp = QueryRequiredResponse

\* a finished request whose question was whitespace only, answered 400
C7_Witness ==
    \E r \in Requests :
        /\ req[r].pc = "done"
        /\ SentQuery(r)
        /\ req[r].body.query # <<>>
        /\ WhitespaceOnly(req[r].body.query)
        /\ req[r].resp.status = 400
        /\ req[r].model_calls = 0

\* C8: a request whose query is missing (a JSON body without the key, or no
\* JSON body at all) is answered with HTTP 400; stated for requests whose
\* store connection was established.
C8_MissingQueryIs400 ==
    \A r \in Requests :
        (/\ req[r].pc = "done"
         /\ req[r].route = "query"
         /\ ~req[r].connect_failed
         /\ (~req[r].body.json \/ ~req[r].body.has_query))
        => req[r].resp.status = 400

\* C9: no request ends with its store connection still open.
C9_ConnectionReleased ==
    \A r \in Requests :
        /\ req[r].pc = "done" => req[r].conn # "open"
        /\ req[r].conn = "open" => req[r].pc \notin {"idle", "connect", "done"}

\* a request that acquired a connection, failed with an exception inside the
\* try block, and ended with the connection closed
C9_Witness ==
    \E r \in Requests :
        /\ req[r].pc = "done"
        /\ req[r].conn = "closed"
        /\ req[r].exc # ""
        /\ req[r].resp.status = 500

\* C10: a store failure, in connecting or in a query, ends the request with
\* HTTP 500 and the JSON body {error: <the failure's message>}.
C10_StoreFailureIsJsonError ==
    \A r \in Requests :
        (req[r].pc = "done" /\ (req[r].connect_failed \/ req[r].store_failed))
        => req[r].resp = ErrorResponse(req[r].exc)

---------------------------------------------------------------------------
(* Claims about the listings, checked under Spec *)

\* the search hits, by position, whose people list has the name as an element
KeptPositions(name, hits) ==
    { n \in 1..Len(hits) : \E i \in 1..Len(hits[n].people) : hits[n].people[i] = name }

\* C11: every event of the person listing has the name as an exact element of
\* its people list, every hit without it is dropped, and event_count is the
\* number of events kept.
C11_PersonListingExact ==
    \A r \in Requests :
        (req[r].route = "person" /\ req[r].resp.status = 200)
        => /\ \A n \in 1..Len(req[r].resp.listing) :
                \E i \in 1..Len(req[r].resp.listing[n].people) :
                    req[r].resp.listing[n].people[i] = req[r].arg
           /\ Len(req[r].resp.listing) = Cardinality(KeptPositions(req[r].arg, req[r].hits))
           /\ req[r].resp.event_count = Len(req[r].resp.listing)

\* a search for Al that hit an event attended by Ali but not by Al, which the
\* listing dropped while keeping another hit
C11_Witness ==
    \E r \in Requests :
        /\ req[r].route = "person"
        /\ req[r].pc = "done"
        /\ req[r].arg = Al
        /\ \E n \in 1..Len(req[r].hits) :
             /\ IsMember(Ali, req[r].hits[n].people)
             /\ ~IsMember(Al, req[r].hits[n].people)
        /\ req[r].resp.event_count >= 1
        /\ req[r].resp.event_count < Len(req[r].hits)

---------------------------------------------------------------------------
(* Claims about the model call, checked under Spec *)

\* C15: the model adapter is called at most once per query request; after a
\* failed call the request holds the fallback answer and only has its
\* connection left to close.
C15_AtMostOneModelCall ==
    \A r \in Requests :
        /\ req[r].model_calls <= 1
        /\ req[r].model_failed
             => /\ req[r].model_calls = 1
                /\ req[r].pc \in {"finally", "done"}
                /\ req[r].resp.type = "fallback"

\* a finished request whose single model call failed
C15_Witness ==
    \E r \in Requests :
        /\ req[r].pc = "done"
        /\ req[r].model_failed
        /\ req[r].model_calls = 1
        /\ req[r].resp.type = "fallback"

\* C16: when the model call succeeds the answer is the model's text unchanged
\* and the type is "claude_response"; nothing of the fallback is in it.
C16_ModelTextVerbatim ==
    \A r \in Requests :
        (req[r].model_calls = 1 /\ ~req[r].model_failed)
        => /\ req[r].resp.status = 200
           /\ req[r].resp.type = "claude_response"
           /\ req[r].resp.answer.template = "{text}"
           /\ req[r].resp.answer.text = req[r].model_text
           /\ req[r].resp.answer.person1 = <<>>
           /\ req[r].resp.answer.count = 0

\* a finished request answered with the model's text, on a question and a
\* store for which the fallback would have named a pair
C16_Witness ==
    \E r \in Requests :
        /\ req[r].pc = "done"
        /\ req[r].model_calls = 1
        /\ ~req[r].model_failed
        /\ req[r].model_text = "another model text"
        /\ req[r].resp.answer.text = "another model text"
        /\ HasKeyword(req[r].query)
        /\ PairCounts(req[r].events) # <<>>

\* C18: the prompt sent to the model holds the question exactly as the caller
\* submitted it, letter case and surrounding whitespace unchanged.
C18_PromptQuestionVerbatim ==
    \A r \in Requests :
        (req[r].pc = "model" \/ req[r].model_calls > 0)
        => req[r].prompt.question = req[r].body.query

---------------------------------------------------------------------------
(* Claims about the order of the query pipeline, checked under Spec *)

\* C25: in a query request the model is called only after the three fetches
\* and the prompt are done; once a store fetch has failed the model is never
\* called, no fallback answer is produced and the response is an HTTP 500.
C25_FetchesBeforeModel ==
    \A r \in Requests :
        /\ (req[r].pc = "model" \/ req[r].model_calls > 0)
             => /\ req[r].fetched = {"Event", "Activity", "Person"}
                /\ req[r].prompt # NoPrompt
                /\ req[r].prompt.question = req[r].query
                /\ ~req[r].store_failed
        /\ (req[r].route = "query" /\ req[r].store_failed)
             => /\ req[r].model_calls = 0
                /\ req[r].pc \in {"except", "finally", "done"}
                /\ req[r].resp.type # "fallback"
                /\ req[r].resp.answer = NoAnswer
                /\ req[r].pc \in {"finally", "done"} => req[r].resp.status = 500

\* a query request ended with a 500 after its third fetch failed, the loader
\* having deleted the Person collection
C25_Witness ==
    \E r \in Requests :
        /\ req[r].route = "query"
        /\ req[r].pc = "done"
        /\ req[r].store_failed
        /\ req[r].fetched = {"Event", "Activity"}
        /\ "Person" \notin store.exists
        /\ req[r].model_calls = 0
        /\ req[r].resp.status = 500

---------------------------------------------------------------------------
(* Claims about requests in flight together, checked under SpecConc *)

\* the response the handler gives to a request running alone, from the route,
\* the arguments, the data the store returned and the model's outcome
ResponseAlone(request) ==
    IF request.connect_failed THEN UnhandledExceptionResponse(ConnectError)
    ELSE IF request.store_failed THEN ErrorResponse(StoreError)
    ELSE IF request.route = "events"
         THEN [OkResponse EXCEPT !.listing = request.hits]
    ELSE IF request.route = "activity"
         THEN [OkResponse EXCEPT !.listing = request.hits,
                                 !.event_count = Len(request.hits)]
    ELSE IF request.route = "person"
         THEN LET events == FilterByPerson(request.arg, request.hits)
              IN  [OkResponse EXCEPT !.listing = events, !.event_count = Len(events)]
    ELSE IF request.route = "best_friends"
         THEN [OkResponse EXCEPT !.friends = FriendsList(request.hits)]
    ELSE IF ~request.body.json THEN ErrorResponse(request.exc)
    ELSE IF request.body.has_query /\ ~request.body.is_str
         THEN ErrorResponse(request.exc)
    ELSE IF IsBlank(ParseQuery(request.body)) THEN QueryRequiredResponse
    ELSE IF request.model_failed
         THEN LET result == fallback_query_analysis(request.events,
                                                    ParseQuery(request.body))
              IN  [OkResponse EXCEPT !.answer = result.answer, !.type = result.type]
    ELSE [OkResponse EXCEPT !.answer = VerbatimAnswer(request.model_text),
                            !.type = "claude_response"]

\* C23: under every interleaving of the requests in flight, the response of
\* each request is the one it gives running alone on the data the store
\* returned to it.
C23_RequestsIsolated ==
    \A r \in Requests :
        req[r].pc \in {"finally", "done"} => req[r].resp = ResponseAlone(req[r])

\* two best-friends requests in flight together, both past their counting and
\* both still holding their connection
C23_Witness ==
    /\ \A r \in Requests :
         /\ req[r].route = "best_friends"
         /\ req[r].pc = "finally"
         /\ req[r].conn = "open"
         /\ req[r].resp.friends # <<>>
         /\ req[r].resp.friends = FriendsList(req[r].hits)
    /\ Cardinality(Requests) >= 2

====
